---- MODULE Spec2Model ----
(***************************************************************************)
(* A model of the api-rag-chat service: the chat path (intent routing,     *)
(* history-aware retrieval-augmented answering, per-session window         *)
(* memory) and the CSV ingestion pipeline (relational products/variants    *)
(* plus the vector collection), as implemented in                          *)
(* backend/src/core/rag_service.py and backend/src/api/router.py.          *)
(*                                                                         *)
(* Handles that are None or an object in the code are BOOLEANs here        *)
(* (TRUE: the object exists).  The capabilities the code consumes (the     *)
(* LLM, the retriever, the database) are nondeterministic: every call      *)
(* either raises or returns one value of a small set.                      *)
(***************************************************************************)
EXTENDS Integers, Sequences, FiniteSets, Bags, TLC

(***************************************************************************)
(* Bounds of the model.                                                    *)
(***************************************************************************)
\* answered turns (over all sessions) the chat specification explores
MaxTurns == 2
\* calls of ingest_data_in_background the ingestion specification explores
MaxIngestCalls == 2
\* turns beyond the memory window the window specification explores
WindowSlack == 1

(***************************************************************************)
(* Input domains.                                                          *)
(***************************************************************************)
SessionIds == {"a@b.com", "c@d.com"}
Questions == {"dog shampoo?", "and for cats?"}
Answers == {"answer-1", "answer-2"}
\* standalone questions the reformulation call may produce
Standalones == {"cat shampoo?"}
\* page contents the retriever may return, best match first
DocPool == <<"doc-1", "doc-2">>
\* values of the k query parameter (router: Query(3, ge=1, le=10))
KValues == {1, 3}

VARIABLES
    \* rag_service globals (None / object)
    embeddings_model, llm, SessionLocal, vector_store, db_engine,
    \* the lifespan hook has run (requests are served only afterwards)
    started,
    \* rag_service.conversation_memory_store: session id -> chat_memory.messages
    conversation_memory_store,
    \* history variable: per session, the (question, answer) pairs that
    \* get_rag_answer returned, in the order it returned them
    answered,
    \* the observable record of the last completed operation
    last,
    \* the committed rows of tables products and product_variants (the
    \* variants in insertion order), and the sequence behind products.id
    products, variants, next_product_id,
    \* the documents of collection rag_products_collection
    collection,
    \* the ingestion background tasks (threads of the pool): for each, its
    \* position in ingest_data_in_background and its locals
    tasks,
    \* the calls of ingest_data_in_background started so far
    calls_started,
    \* the POST /chat requests the server has accepted: for each, the
    \* position of its coroutine in chat_endpoint and what it holds
    requests,
    \* the environment variables the process was started with: are the
    \* database parameters all set, is GCP_PROJECT_ID set
    environ

handles == <<embeddings_model, llm, SessionLocal, vector_store, db_engine>>
chat_vars == <<conversation_memory_store, answered, last>>
ingest_vars == <<products, variants, next_product_id, collection, tasks,
                 calls_started>>
vars == <<embeddings_model, llm, SessionLocal, vector_store, db_engine,
          started, conversation_memory_store, answered, last,
          products, variants, next_product_id, collection, tasks, calls_started,
          requests, environ>>

(***************************************************************************)
(* Configuration (core/config.py).                                         *)
(***************************************************************************)
DefaultIntent == "product_query"
\* (mutation) the table of the keyword-matching variant: no identity entry
CHITCHAT_RESPONSES_without_identity ==
    [greeting |-> [response |-> "Hello! I am your shopping assistant. What product are you looking for today?"],
     thanks   |-> [response |-> "You're welcome! If you need anything else, feel free to ask."],
     goodbye  |-> [response |-> "Goodbye! Have a great day."]]

CHITCHAT_RESPONSES ==
    [greeting |-> [response |-> "Hello! I am your shopping assistant. What product are you looking for today?"],
     thanks   |-> [response |-> "You're welcome! If you need anything else, feel free to ask."],
     goodbye  |-> [response |-> "Goodbye! Have a great day."],
     identity |-> [response |-> "I am a shopping assistant powered by Google's AI. I can help you find products from the store catalog."]]
\* the labels the classification prompt offers
IntentLabels == {"greeting", "goodbye", "thanks", "identity", "product_query"}

(***************************************************************************)
(* The shape of an operation's observable record.                          *)
(***************************************************************************)
NoPrompt == [note |-> "", history |-> <<>>, context |-> <<>>]
NoOp ==
    [op |-> "none", session_id |-> "", question |-> "", intent |-> "",
     outcome |-> "", error |-> "", answer |-> "", prompt |-> NoPrompt,
     calls |-> {}, query |-> "", capability |-> ""]

(***************************************************************************)
(* Messages and the window memory (ConversationBufferWindowMemory).        *)
(***************************************************************************)
HumanMessage(text) == [type |-> "human", content |-> text]
AIMessage(text) == [type |-> "ai", content |-> text]

\* ConversationBufferWindowMemory(k=10, ...): the number of turns loaded
MemoryWindowK == 10

LastN(s, n) ==
    IF Len(s) <= n THEN s ELSE SubSeq(s, Len(s) - n + 1, Len(s))

\* (mutation) a window of k messages, not of k turns
load_memory_variables_k_messages(messages) ==
    IF MemoryWindowK > 0 THEN LastN(messages, MemoryWindowK) ELSE <<>>

\* memory.load_memory_variables({}).get("chat_history", []): the buffer is
\* chat_memory.messages[-k * 2:] when k > 0, and [] otherwise
load_memory_variables(messages) ==
    IF MemoryWindowK > 0 THEN LastN(messages, MemoryWindowK * 2) ELSE <<>>

(* (mutation) the turn saved to a memory made anew for the session *)
save_context_on_new_memory(messages, q, a) ==
    <<HumanMessage(q), AIMessage(a)>>

\* memory.save_context({"input": q}, {"output": a}): chat_memory gets the
\* human message and then the AI message; nothing is removed from it
save_context(messages, q, a) ==
    messages \o <<HumanMessage(q), AIMessage(a)>>

\* (mutation) a new memory on every call, also for a known session
get_or_create_memory_always_new(store, sid) ==
    (sid :> <<>>) @@ store

\* get_or_create_memory_for_session: a missing session gets an empty memory
get_or_create_memory_for_session(store, sid) ==
    IF sid \in DOMAIN store THEN store ELSE store @@ (sid :> <<>>)

(***************************************************************************)
(* classify_intent.                                                        *)
(*                                                                         *)
(* The text the classification chain returns is a body, optionally wrapped *)
(* in a prefix and a suffix.  Bodies stand for the JSON documents that     *)
(* json.loads tells apart.                                                 *)
(***************************************************************************)
\* JSON values of the "intent" member that are no string (null, a list)
JsonNull == "<null>"
JsonList == "<list>"
IntentValues == IntentLabels \cup {"complaint", JsonNull, JsonList}

JsonBodies ==
    [json : {"object"}, has_intent : {TRUE}, intent : IntentValues]
    \cup [json : {"object", "array", "string", "malformed"},
          has_intent : {FALSE}, intent : {""}]

Wrappers == {"", "[fence json]", "[fence]", "Sure, here it is:"}
LlmTexts == [prefix : Wrappers, body : JsonBodies, suffix : {"", "[fence]"}]

\* the exception types chain.invoke may raise
CapabilityErrors == {"TimeoutError", "RuntimeError"}
ExceptionTypes == CapabilityErrors \cup {"AttributeError", "JSONDecodeError"}
Raise(e) == [raises |-> TRUE, exc |-> e]
Raises == {Raise(e) : e \in ExceptionTypes}
Returns(v) == [raises |-> FALSE, value |-> v]

\* llm_output.strip().replace(<fence>json, "").replace(<fence>, "").strip():
\* code-fence markers go, anything else around the body stays
IsFence(w) == w \in {"", "[fence json]", "[fence]"}
CleanOutput(text) ==
    [junk |-> ~IsFence(text.prefix) \/ ~IsFence(text.suffix), body |-> text.body]

\* json.loads(cleaned_output) followed by response_json.get("intent",
\* "product_query"): the value returned, or the exception raised
ParseIntent(cleaned) ==
    IF cleaned.junk \/ cleaned.body.json = "malformed"
    THEN Raise("JSONDecodeError")
    ELSE IF cleaned.body.json # "object"
    THEN Raise("AttributeError")
    ELSE IF cleaned.body.has_intent
    THEN Returns(cleaned.body.intent)
    ELSE Returns(DefaultIntent)

\* the except clauses of classify_intent, given the exception raised in the
\* try block and whether llm_output was assigned before it was raised: the
\* first handler formats llm_output into its log line
HandleClassifyError(exc, llm_output_bound) ==
    IF exc \in {"JSONDecodeError", "AttributeError"}
    THEN IF llm_output_bound THEN Returns(DefaultIntent)
         ELSE Raise("UnboundLocalError")
    ELSE Returns(DefaultIntent)

\* classify_intent(question) when the chain's call has outcome out
\* (Raise(e) or Returns(text)); called tells whether the chain was invoked
classify_intent(llm_set, out) ==
    IF ~llm_set
    THEN [result |-> Returns(DefaultIntent), called |-> FALSE]
    ELSE IF out.raises
    THEN [result |-> HandleClassifyError(out.exc, FALSE), called |-> TRUE]
    ELSE LET parsed == ParseIntent(CleanOutput(out.value)) IN
         [result |-> IF parsed.raises
                     THEN HandleClassifyError(parsed.exc, TRUE)
                     ELSE parsed,
          called |-> TRUE]

(***************************************************************************)
(* get_rag_answer.                                                         *)
(***************************************************************************)
DegradedAnswer == "I'm sorry, but my knowledge base is currently unavailable."
NotInitializedPrompt ==
    [note |-> "Error: Not initialized.", history |-> <<>>, context |-> <<>>]

Min(a, b) == IF a <= b THEN a ELSE b

\* what a similarity search with search_kwargs {"k": k} may do: raise, or
\* return at most k documents, best match first
RetrievalOutcomes(k) ==
    {Raise(e) : e \in CapabilityErrors}
    \cup {Returns(SubSeq(DocPool, 1, n)) : n \in 0..Min(k, Len(DocPool))}
ReformulationOutcomes ==
    {Raise(e) : e \in CapabilityErrors} \cup {Returns(t) : t \in Standalones}
GenerationOutcomes ==
    {Raise(e) : e \in CapabilityErrors} \cup {Returns(a) : a \in Answers}

ChainRaised(e, calls, query) ==
    [raises |-> TRUE, exc |-> e, calls |-> calls, query |-> query,
     context |-> <<>>, answer |-> ""]

(* (mutation) the reformulated question is dropped: the retriever gets the
   question as asked *)
rag_chain_invoke_with_the_question(question, chat_history, ref, ret, gen) ==
    LET reformulate == chat_history # <<>>
        c0 == IF reformulate THEN {"reformulate"} ELSE {}
    IN  IF reformulate /\ ref.raises
        THEN ChainRaised(ref.exc, c0, "")
        ELSE IF ret.raises
        THEN ChainRaised(ret.exc, c0 \cup {"retrieve"}, question)
        ELSE IF gen.raises
        THEN ChainRaised(gen.exc, c0 \cup {"retrieve", "generate"}, question)
        ELSE [raises |-> FALSE, exc |-> "",
              calls |-> c0 \cup {"retrieve", "generate"}, query |-> question,
              context |-> ret.value, answer |-> gen.value]

\* rag_chain.invoke({"input": question, "chat_history": chat_history}):
\* create_history_aware_retriever sends the question itself to the retriever
\* when the history is empty and the LLM's reformulation of it otherwise;
\* create_retrieval_chain then generates the answer from the documents.
\* ref, ret, gen: the outcomes of the three capability calls, if made
rag_chain_invoke(question, chat_history, ref, ret, gen) ==
    LET reformulate == chat_history # <<>>
        c0 == IF reformulate THEN {"reformulate"} ELSE {}
    IN  IF reformulate /\ ref.raises
        THEN ChainRaised(ref.exc, c0, "")
        ELSE LET query == IF reformulate THEN ref.value ELSE question IN
             IF ret.raises
             THEN ChainRaised(ret.exc, c0 \cup {"retrieve"}, query)
             ELSE IF gen.raises
             THEN ChainRaised(gen.exc, c0 \cup {"retrieve", "generate"}, query)
             ELSE [raises |-> FALSE, exc |-> "",
                   calls |-> c0 \cup {"retrieve", "generate"}, query |-> query,
                   context |-> ret.value, answer |-> gen.value]

\* (mutation) the session's memory is created before the handles are tested
not_initialized_after_create(store, sid) ==
    [store |-> get_or_create_memory_for_session(store, sid),
     result |-> [outcome |-> "degraded", error |-> "",
                 answer |-> DegradedAnswer, prompt |-> NotInitializedPrompt,
                 calls |-> {}, query |-> ""]]

\* get_rag_answer when the handles are not set (lines 287-292)
not_initialized(store, sid) ==
    [store |-> store,
     result |-> [outcome |-> "degraded", error |-> "",
                 answer |-> DegradedAnswer, prompt |-> NotInitializedPrompt,
                 calls |-> {}, query |-> ""]]

(* (mutation) the question saved before the chain is invoked *)
answer_with_memory_question_first(store, sid, question, ref, ret, gen) ==
    LET store1 == get_or_create_memory_for_session(store, sid)
        chat_history == load_memory_variables(store1[sid])
        response == rag_chain_invoke(question, chat_history, ref, ret, gen)
        store2 == [store1 EXCEPT ![sid] = Append(@, HumanMessage(question))]
    IN  IF response.raises
        THEN [store |-> store2,
              result |-> [outcome |-> "raised", error |-> response.exc,
                          answer |-> "", prompt |-> NoPrompt,
                          calls |-> response.calls, query |-> response.query]]
        ELSE [store |-> [store2 EXCEPT
                           ![sid] = Append(@, AIMessage(response.answer))],
              result |-> [outcome |-> "answered", error |-> "",
                          answer |-> response.answer,
                          prompt |-> [note |-> "", history |-> chat_history,
                                      context |-> response.context],
                          calls |-> response.calls, query |-> response.query]]

\* get_rag_answer past its guard (lines 294-343): get or create the memory,
\* load the history, invoke the chain, save the turn, build the debug prompt.
\* An exception of the chain leaves the function: nothing catches it
answer_with_memory(store, sid, question, ref, ret, gen) ==
    LET store1 == get_or_create_memory_for_session(store, sid)
        chat_history == load_memory_variables(store1[sid])
        response == rag_chain_invoke(question, chat_history, ref, ret, gen)
    IN  IF response.raises
        THEN [store |-> store1,
              result |-> [outcome |-> "raised", error |-> response.exc,
                          answer |-> "", prompt |-> NoPrompt,
                          calls |-> response.calls, query |-> response.query]]
        ELSE [store |-> [store1 EXCEPT
                           ![sid] = save_context(@, question, response.answer)],
              result |-> [outcome |-> "answered", error |-> "",
                          answer |-> response.answer,
                          prompt |-> [note |-> "", history |-> chat_history,
                                      context |-> response.context],
                          calls |-> response.calls, query |-> response.query]]

\* get_rag_answer(session_id, question, k): the memory store it leaves and
\* what the caller observes (a returned dict, or an exception)
get_rag_answer(store, vs_set, llm_set, sid, question, ref, ret, gen) ==
    IF ~vs_set \/ ~llm_set
    THEN not_initialized(store, sid)
    ELSE answer_with_memory(store, sid, question, ref, ret, gen)

(***************************************************************************)
(* chat_endpoint (router.py).                                              *)
(***************************************************************************)
\* the membership test "intent in CHITCHAT_RESPONSES" hashes intent
Unhashable(intent) == intent = JsonList

\* chat_endpoint up to its call of get_rag_answer: the response it gives
\* without answering (small talk, HTTP 503, an exception), or outcome "rag"
chat_route(vs_set, llm_set, cls) ==
    LET c == classify_intent(llm_set, cls)
        base == [outcome |-> "", error |-> "", answer |-> "", prompt |-> NoPrompt,
                 calls |-> IF c.called THEN {"classify"} ELSE {},
                 query |-> "", intent |-> ""]
    IN  IF c.result.raises
        THEN [base EXCEPT !.outcome = "raised", !.error = c.result.exc]
        ELSE LET intent == c.result.value IN
             IF Unhashable(intent)
             THEN [base EXCEPT !.outcome = "raised", !.error = "TypeError",
                               !.intent = intent]
             ELSE IF intent \in DOMAIN CHITCHAT_RESPONSES
             THEN [base EXCEPT !.outcome = "chitchat", !.intent = intent,
                               !.answer = CHITCHAT_RESPONSES[intent].response]
             ELSE IF ~vs_set
             THEN [base EXCEPT !.outcome = "http_503", !.intent = intent,
                               !.error = "The vector database is not ready."]
             ELSE [base EXCEPT !.outcome = "rag", !.intent = intent]

\* chat_endpoint(request, k) when the capability calls have outcomes cls,
\* ref, ret, gen: the memory store it leaves and what the client observes
chat_endpoint(store, vs_set, llm_set, sid, question, cls, ref, ret, gen) ==
    LET route == chat_route(vs_set, llm_set, cls) IN
    IF route.outcome # "rag"
    THEN [store |-> store, result |-> route]
    ELSE LET r == get_rag_answer(store, vs_set, llm_set, sid, question,
                                 ref, ret, gen)
         IN  [store |-> r.store,
              result |-> [r.result EXCEPT !.calls = @ \cup route.calls]
                         @@ [intent |-> route.intent]]

(* (mutation) a probe that looks at the LLM handle *)
get_status_of_llm(h) ==
    [status |-> IF h.llm THEN "ready" ELSE "initializing",
     detail |-> IF h.llm
                THEN "The vector store is loaded and ready for queries."
                ELSE "The vector store is initializing or no file has been uploaded yet."]

\* GET /status: the readiness probe; h: the globals of rag_service
get_status(h) ==
    [status |-> IF h.vector_store THEN "ready" ELSE "initializing",
     detail |-> IF h.vector_store
                THEN "The vector store is loaded and ready for queries."
                ELSE "The vector store is initializing or no file has been uploaded yet."]

(***************************************************************************)
(* initialize_vector_store, run once by the lifespan hook (main.py), which *)
(* logs any exception and goes on serving.                                 *)
(***************************************************************************)
\* the calls of initialize_vector_store that can raise, in program order
InitSteps ==
    <<"setup_embeddings", "VertexAI", "_get_db_engine", "create_all",
      "PGVector", "create_extension">>
InitFailures == {InitSteps[i] : i \in 1..Len(InitSteps)} \cup {"none"}

StepIndex(step) ==
    IF step = "none" THEN Len(InitSteps) + 1
    ELSE CHOOSE i \in 1..Len(InitSteps) : InitSteps[i] = step

\* the globals after initialize_vector_store ran up to the call that raised
\* (fail_at), or to its end (fail_at = "none"); h: the globals before
initialize_vector_store(h, fail_at) ==
    LET f == StepIndex(fail_at)
        emb == h.embeddings_model \/ f > 1
        emb_failed == ~h.embeddings_model /\ f = 1
        model_failed == emb_failed \/ (~h.llm /\ f = 2)
        engine_failed == model_failed \/ (~h.db_engine /\ f = 3)
    IN  [embeddings_model |-> emb,
         llm |-> h.llm \/ (~emb_failed /\ f > 2),
         db_engine |-> h.db_engine \/ (~model_failed /\ f > 3),
         SessionLocal |-> h.SessionLocal \/ ~engine_failed,
         vector_store |-> h.vector_store \/ (~engine_failed /\ f > 5)]

(***************************************************************************)
(* Ingestion: the CSV, the relational rows, the documents.                 *)
(*                                                                         *)
(* A file is the DataFrame pd.read_csv(csv_path).astype(str) gives: every  *)
(* cell a text ("nan" for an empty cell).  Of the columns copied from the  *)
(* group's first row the model keeps product_name, of the two price        *)
(* columns retail_price (discounted_price is parsed the same way).         *)
(***************************************************************************)
Tasks == {"t1", "t2"}

\* the order in which df.groupby("product_id") yields the keys (sorted)
IdOrder == <<"p1", "p2", "p3">>

Row(id, name, image, price) ==
    [product_id |-> id, product_name |-> name, image_url |-> image,
     retail_price |-> price]

\* the uploaded files
Files ==
    ("catalog.csv" :> <<Row("p2", "Leash", "b1.jpg", "0.0"),
                        Row("p1", "Shampoo", "a1.jpg", "10.0"),
                        Row("p2", "Leash red", "b2.jpg", "20.0")>>)
    @@ ("update.csv" :> <<Row("p2", "Leash v2", "b3.jpg", "10.0"),
                          Row("p3", "Bowl", "c1.jpg", "nan")>>)
    @@ ("prices.csv" :> <<Row("p3", "Bowl", "c1.jpg", "abc")>>)
    @@ ("gaps.csv" :> <<Row("p1", "nan", "a1.jpg", "10.0"),
                        Row("p2", "Leash", "b1.jpg", "10.0")>>)
\* paths given to ingest_data_in_background; missing.csv does not exist
FilePaths == {"catalog.csv", "update.csv", "prices.csv", "missing.csv"}

\* what pd.read_csv raises for a path that does not exist, for a file of
\* zero bytes and for a file whose lines do not tokenize
ReadErrors ==
    ("missing.csv" :> "FileNotFoundError") @@ ("empty.csv" :> "EmptyDataError")
    @@ ("broken.csv" :> "ParserError")
\* a file that parses and has no product_id column: df.groupby raises
FilesWithoutColumns == {"headers.csv"}
\* every kind of source
SourcePaths == DOMAIN Files \cup DOMAIN ReadErrors \cup FilesWithoutColumns

\* pd.read_csv(csv_path).astype(str)
read_csv(path) ==
    IF path \in DOMAIN ReadErrors THEN Raise(ReadErrors[path])
    ELSE IF path \in DOMAIN Files THEN Returns(Files[path])
    ELSE Returns(<<>>)

\* Python floats: a NaN, or a number (kept in tenths)
Float(tenths) == [nan |-> FALSE, tenths |-> tenths]
NaN == [nan |-> TRUE, tenths |-> 0]
Decimals == ("0.0" :> 0) @@ ("10.0" :> 100) @@ ("20.0" :> 200)

\* float(text)
ParseFloat(text) ==
    IF text = "nan" THEN Returns(NaN)
    ELSE IF text \in DOMAIN Decimals THEN Returns(Float(Decimals[text]))
    ELSE Raise("ValueError")

\* str(x) of a float
FloatStr(x) ==
    IF x.nan THEN "nan"
    ELSE CHOOSE text \in DOMAIN Decimals : Decimals[text] = x.tenths

\* bool(x) of a float: 0.0 is false, NaN is true
Truthy(x) == x.nan \/ x.tenths # 0

\* the keys of df.groupby("product_id"), in the order it yields them
GroupKeys(rows) ==
    SelectSeq(IdOrder, LAMBDA id : \E i \in 1..Len(rows) : rows[i].product_id = id)
\* the group of a key: its rows in file order
Group(rows, id) == SelectSeq(rows, LAMBDA r : r.product_id = id)

\* Product(uniq_id=..., name=first_row[...], image_urls=group[...].tolist())
\* after session.flush() gave it its id
NewProduct(id, uniq_id, group) ==
    [id |-> id, uniq_id |-> uniq_id, name |-> group[1].product_name,
     image_urls |-> [i \in 1..Len(group) |-> group[i].image_url]]

\* the float() calls of the variant loop over a group: the first text that
\* does not parse raises
PricesParse(group) ==
    \A i \in 1..Len(group) : ~ParseFloat(group[i].retail_price).raises

\* ProductVariant(product_id=product.id, retail_price=float(...), stock=100)
\* for each row of the group
NewVariants(id, group) ==
    [i \in 1..Len(group) |->
        [product_id |-> id, retail_price |-> ParseFloat(group[i].retail_price).value,
         stock |-> 100]]

\* create_documents_from_db for one product and its variants (joinedload)
DocumentOf(product, its_variants) ==
    LET price == IF its_variants # <<>>
                 THEN IF Truthy(its_variants[1].retail_price)
                      THEN FloatStr(its_variants[1].retail_price)
                      ELSE "N/A"
                 ELSE "N/A"
    IN  [product_id |-> product.id, name |-> product.name, price |-> price,
         image_url |-> IF product.image_urls # <<>> THEN product.image_urls[1]
                       ELSE "#"]

\* create_documents_from_db(hydrated_products), as a bag: the hydrated
\* products are the committed rows with the given ids
create_documents_from_db(ids, product_rows, variant_rows) ==
    LET hydrated == {p \in product_rows : p.id \in ids}
        doc(p) == DocumentOf(p, SelectSeq(variant_rows,
                                          LAMBDA v : v.product_id = p.id))
    IN  SetToBag({doc(p) : p \in hydrated})

\* the environments a process can be started with
Environments == [db : BOOLEAN, project : BOOLEAN]
CompleteEnviron == [db |-> TRUE, project |-> TRUE]

\* the lifespan hook puts a default GCP_PROJECT_ID into os.environ when
\* there is none (main.py lines 44-47)
lifespan_environ(env) == [env EXCEPT !.project = TRUE]

\* the calls of initialize_vector_store at which it may end when the process
\* was started with env.  setup_embeddings reads GCP_PROJECT_ID from
\* os.environ after the hook set its default, so its own check passes;
\* VertexAI gets the module constant GCP_PROJECT_ID read at import, None when
\* the variable was missing.  What the two constructors do with a project
\* that is not the configured one is up to the library: they return or
\* raise.  _get_db_engine raises ValueError when a database parameter is
\* missing.
ConfigOutcomes(env) ==
    (IF lifespan_environ(env).project /\ env.project THEN {}
     ELSE IF lifespan_environ(env).project THEN {"setup_embeddings", "VertexAI"}
     ELSE {"setup_embeddings"})
    \cup {IF env.db THEN "none" ELSE "_get_db_engine"}

\* the requests in flight and what each asks
RequestIds == {"r1", "r2"}
RequestQuestion == ("r1" :> "dog shampoo?") @@ ("r2" :> "and for cats?")
\* a request that has not arrived
NoRequest ==
    [pc |-> "none", session_id |-> "", overlapped |-> FALSE, generated |-> 0,
     result |-> [outcome |-> "", error |-> "", answer |-> "", prompt |-> NoPrompt,
                 calls |-> {}, query |-> "", intent |-> ""]]

\* a task that runs no call
IdleTask ==
    [pc |-> "idle", file |-> "", groups |-> <<>>, new |-> <<>>,
     pvariants |-> <<>>, docs |-> EmptyBag, error |-> "", created |-> 0,
     all_known |-> FALSE, none_known |-> FALSE, overlapped |-> FALSE,
     store_failed |-> FALSE, raised |-> ""]

(***************************************************************************)
(* State.                                                                  *)
(***************************************************************************)
Init ==
    /\ embeddings_model = FALSE
    /\ llm = FALSE
    /\ SessionLocal = FALSE
    /\ vector_store = FALSE
    /\ db_engine = FALSE
    /\ started = FALSE
    /\ conversation_memory_store = <<>>
    /\ answered = [sid \in SessionIds |-> <<>>]
    /\ last = NoOp
    /\ products = {}
    /\ variants = <<>>
    /\ next_product_id = 1
    /\ collection = EmptyBag
    /\ tasks = [t \in Tasks |-> IdleTask]
    /\ calls_started = 0
    /\ requests = [r \in RequestIds |-> NoRequest]
    /\ environ = CompleteEnviron

\* the turns get_rag_answer has appended so far, over all sessions
RECURSIVE SumLen(_, _)
SumLen(f, S) ==
    IF S = {} THEN 0
    ELSE LET x == CHOOSE y \in S : TRUE IN Len(f[x]) + SumLen(f, S \ {x})
TotalTurns == SumLen(answered, SessionIds)

\* the history a request of session sid would load now
SessionHistory(sid) ==
    IF sid \in DOMAIN conversation_memory_store
    THEN load_memory_variables(conversation_memory_store[sid])
    ELSE <<>>

(***************************************************************************)
(* Actions.                                                                *)
(***************************************************************************)
\* the lifespan hook: initialize_vector_store inside try/except Exception
Lifespan(fail_at) ==
    /\ ~started
    /\ LET h == initialize_vector_store(
                    [embeddings_model |-> embeddings_model, llm |-> llm,
                     db_engine |-> db_engine, SessionLocal |-> SessionLocal,
                     vector_store |-> vector_store], fail_at)
       IN  /\ embeddings_model' = h.embeddings_model
           /\ llm' = h.llm
           /\ db_engine' = h.db_engine
           /\ SessionLocal' = h.SessionLocal
           /\ vector_store' = h.vector_store
    /\ started' = TRUE
    /\ last' = [NoOp EXCEPT !.op = "lifespan", !.error = fail_at]
    /\ UNCHANGED <<conversation_memory_store, answered>>
    /\ UNCHANGED ingest_vars
    /\ UNCHANGED <<requests, environ>>

\* the lifespan hook of a process started with environment env
LifespanWith(env, fail_at) ==
    /\ ~started
    /\ fail_at \in ConfigOutcomes(env)
    /\ LET h == initialize_vector_store(
                    [embeddings_model |-> embeddings_model, llm |-> llm,
                     db_engine |-> db_engine, SessionLocal |-> SessionLocal,
                     vector_store |-> vector_store], fail_at)
       IN  /\ embeddings_model' = h.embeddings_model
           /\ llm' = h.llm
           /\ db_engine' = h.db_engine
           /\ SessionLocal' = h.SessionLocal
           /\ vector_store' = h.vector_store
    /\ started' = TRUE
    /\ environ' = env
    /\ last' = [NoOp EXCEPT !.op = "lifespan", !.error = fail_at]
    /\ UNCHANGED <<conversation_memory_store, answered>>
    /\ UNCHANGED ingest_vars
    /\ UNCHANGED requests

\* the globals of rag_service
Globals ==
    [embeddings_model |-> embeddings_model, llm |-> llm, db_engine |-> db_engine,
     SessionLocal |-> SessionLocal, vector_store |-> vector_store]

\* GET /status
GetStatus ==
    /\ started
    /\ last' = [NoOp EXCEPT !.op = "get_status",
                            !.outcome = get_status(Globals).status,
                            !.answer = get_status(Globals).detail]
    /\ UNCHANGED <<embeddings_model, llm, SessionLocal, vector_store, db_engine,
                   started, conversation_memory_store, answered>>
    /\ UNCHANGED ingest_vars
    /\ UNCHANGED <<requests, environ>>

\* a call that is not made has no outcome
NotCalled == [raises |-> FALSE, skipped |-> TRUE]

\* the outcomes of the capability calls one run of get_rag_answer can meet:
\* a call is made only if the calls before it returned (reached: the run
\* gets as far as the chain)
RagChoices(reached, sid, k, env) ==
    IF ~reached
    THEN {[ref |-> NotCalled, ret |-> NotCalled, gen |-> NotCalled]}
    ELSE
    LET refs == IF SessionHistory(sid) = <<>> THEN {NotCalled} ELSE env.ref
        rets == RetrievalOutcomes(k) \cap env.ret
        ok(S) == {x \in S : ~x.raises}
        bad(S) == {x \in S : x.raises}
    IN  {[ref |-> r, ret |-> NotCalled, gen |-> NotCalled] : r \in bad(refs)}
        \cup {[ref |-> r, ret |-> t, gen |-> NotCalled] :
                 r \in ok(refs), t \in bad(rets)}
        \cup {[ref |-> r, ret |-> t, gen |-> g] :
                 r \in ok(refs), t \in ok(rets), g \in env.gen}

\* what a completed request leaves: the memory store, the history variable
\* and the observable record
Complete(op, sid, question, r, cap) ==
    /\ r.result.outcome = "answered" => TotalTurns < cap
    /\ conversation_memory_store' = r.store
    /\ answered' =
          IF r.result.outcome = "answered"
          THEN [answered EXCEPT ![sid] =
                   Append(@, [question |-> question, answer |-> r.result.answer])]
          ELSE answered
    /\ last' = [op |-> op, session_id |-> sid, question |-> question,
                intent |-> r.result.intent, outcome |-> r.result.outcome,
                error |-> r.result.error, answer |-> r.result.answer,
                prompt |-> r.result.prompt, calls |-> r.result.calls,
                query |-> r.result.query, capability |-> ""]
    /\ UNCHANGED <<embeddings_model, llm, SessionLocal, vector_store, db_engine,
                   started>>
    /\ UNCHANGED ingest_vars
    /\ UNCHANGED <<requests, environ>>

\* POST /chat
ChatRequest(sid, question, k, cls, env, cap) ==
    /\ started
    /\ \E c \in RagChoices(chat_route(vector_store, llm, cls).outcome = "rag",
                            sid, k, env) :
       \E r \in {chat_endpoint(conversation_memory_store, vector_store, llm,
                              sid, question, cls, c.ref, c.ret, c.gen)} :
          Complete("chat_endpoint", sid, question, r, cap)

\* a call of get_rag_answer (the answer operation exposed to callers)
AnswerCall(sid, question, k, env, cap) ==
    /\ started
    /\ \E c \in RagChoices(vector_store /\ llm, sid, k, env) :
       \E r \in {get_rag_answer(conversation_memory_store, vector_store, llm,
                               sid, question, c.ref, c.ret, c.gen)} :
          Complete("get_rag_answer", sid, question,
                   [store |-> r.store, result |-> r.result @@ [intent |-> ""]],
                   cap)

\* what the classification capability did in a call of classify_intent
CapabilityBehaviour(llm_set, out) ==
    IF ~llm_set THEN "uninitialized"
    ELSE IF out.raises THEN "raised"
    ELSE IF ParseIntent(CleanOutput(out.value)).raises THEN "unparseable"
    ELSE IF ~out.value.body.has_intent THEN "no label"
    ELSE "label"

\* a call of classify_intent
ClassifyCall(question, cls) ==
    /\ started
    /\ \E c \in {classify_intent(llm, cls)} :
          last' = [NoOp EXCEPT
                     !.op = "classify_intent", !.question = question,
                     !.outcome = IF c.result.raises THEN "raised" ELSE "returned",
                     !.error = IF c.result.raises THEN c.result.exc ELSE "",
                     !.intent = IF c.result.raises THEN "" ELSE c.result.value,
                     !.calls = IF c.called THEN {"classify"} ELSE {},
                     !.capability = CapabilityBehaviour(llm, cls)]
    /\ UNCHANGED <<embeddings_model, llm, SessionLocal, vector_store, db_engine,
                   started, conversation_memory_store, answered>>
    /\ UNCHANGED ingest_vars
    /\ UNCHANGED <<requests, environ>>

(***************************************************************************)
(* Requests in flight.  chat_endpoint is a coroutine (async def) that      *)
(* calls classify_intent and get_rag_answer synchronously: it has no await, *)
(* so the event loop of the one server process (main.py: uvicorn.run, one  *)
(* worker) runs it from its first line to its return before it runs any    *)
(* other request.  A request that arrives meanwhile waits.                 *)
(***************************************************************************)
(* (mutation) chat_endpoint as a plain def, run in the thread pool *)
EventLoopAlwaysFree(r) == TRUE

\* the event loop can run request r: it is running no other coroutine
EventLoopFree(r) == \A o \in RequestIds \ {r} : requests[o].pc # "running"

InFlight(r) == requests[r].pc \in {"queued", "running"}

\* the server accepts a POST /chat of session sid
Arrive(r, sid) ==
    /\ started
    /\ requests[r].pc = "none"
    /\ requests' =
          [o \in RequestIds |->
              IF o = r
              THEN [NoRequest EXCEPT
                      !.pc = "queued", !.session_id = sid,
                      !.overlapped = \E x \in RequestIds \ {r} : InFlight(x)]
              ELSE IF InFlight(o) THEN [requests[o] EXCEPT !.overlapped = TRUE]
              ELSE requests[o]]
    /\ UNCHANGED <<embeddings_model, llm, SessionLocal, vector_store, db_engine,
                   started, conversation_memory_store, answered, last>>
    /\ UNCHANGED ingest_vars
    /\ UNCHANGED environ

\* the coroutine of r runs from classify_intent to the return of
\* rag_chain.invoke (get_rag_answer line 325), or to the response or the
\* exception that ends it earlier
BeginRequest(r, k, cls, env) ==
    /\ requests[r].pc = "queued"
    /\ EventLoopFree(r)
    /\ LET sid == requests[r].session_id
           question == RequestQuestion[r]
           rag == chat_route(vector_store, llm, cls).outcome = "rag"
       IN  \E c \in RagChoices(rag, sid, k, env) :
           \E e \in {chat_endpoint(conversation_memory_store, vector_store, llm,
                                  sid, question, cls, c.ref, c.ret, c.gen)} :
              /\ conversation_memory_store' =
                    IF rag /\ vector_store /\ llm
                    THEN get_or_create_memory_for_session(conversation_memory_store,
                                                          sid)
                    ELSE conversation_memory_store
              /\ requests' =
                    [requests EXCEPT
                       ![r] = [@ EXCEPT
                                 !.pc = IF e.result.outcome = "answered"
                                        THEN "running" ELSE "done",
                                 !.result = e.result,
                                 !.generated =
                                    IF "generate" \in e.result.calls
                                          /\ e.result.outcome = "answered"
                                    THEN 1 + Cardinality({o \in RequestIds :
                                                 requests[o].generated > 0})
                                    ELSE 0]]
              /\ last' = IF e.result.outcome = "answered" THEN last
                         ELSE [op |-> "chat_endpoint", session_id |-> sid,
                               question |-> question, intent |-> e.result.intent,
                               outcome |-> e.result.outcome, error |-> e.result.error,
                               answer |-> e.result.answer, prompt |-> e.result.prompt,
                               calls |-> e.result.calls, query |-> e.result.query,
                               capability |-> ""]
    /\ UNCHANGED <<embeddings_model, llm, SessionLocal, vector_store, db_engine,
                   started, answered>>
    /\ UNCHANGED ingest_vars
    /\ UNCHANGED environ

\* the coroutine of r goes on: memory.save_context (line 328), the debug
\* prompt, the response
EndRequest(r) ==
    /\ requests[r].pc = "running"
    /\ LET sid == requests[r].session_id
           question == RequestQuestion[r]
           res == requests[r].result
       IN  /\ conversation_memory_store' =
                 [conversation_memory_store EXCEPT
                    ![sid] = save_context(@, question, res.answer)]
           /\ answered' = [answered EXCEPT ![sid] =
                              Append(@, [question |-> question, answer |-> res.answer])]
           /\ last' = [op |-> "chat_endpoint", session_id |-> sid,
                       question |-> question, intent |-> res.intent,
                       outcome |-> res.outcome, error |-> res.error,
                       answer |-> res.answer, prompt |-> res.prompt,
                       calls |-> res.calls, query |-> res.query, capability |-> ""]
    /\ requests' = [requests EXCEPT ![r] = [@ EXCEPT !.pc = "done"]]
    /\ UNCHANGED <<embeddings_model, llm, SessionLocal, vector_store, db_engine,
                   started>>
    /\ UNCHANGED ingest_vars
    /\ UNCHANGED environ

(***************************************************************************)
(* ingest_data_in_background, one action per database or capability call.  *)
(* The tasks run in threads, so their steps interleave; each task has its  *)
(* own session, that is its own transaction (READ COMMITTED).              *)
(***************************************************************************)
Active(t) == tasks[t].pc \notin {"idle", "done"}

\* products.uniq_id is unique (db_models.py): an INSERT of a uniq_id that a
\* committed row has raises IntegrityError
(* (mutation) the column without its unique index *)
UniqueViolationNever(uniq_id) == FALSE

UniqueViolation(uniq_id) == \E p \in products : p.uniq_id = uniq_id

\* ... and an INSERT of a uniq_id that a row of another open transaction
\* has waits for that transaction to end
WaitsForInsertOf(t, uniq_id) ==
    \E u \in Tasks \ {t} :
       /\ tasks[u].pc \in {"query", "flush", "commit"}
       /\ \E i \in 1..Len(tasks[u].new) : tasks[u].new[i].uniq_id = uniq_id

(* (mutation) a query that never finds the product *)
existing_product_never(uniq_id) == FALSE

\* session.query(Product).filter_by(uniq_id=product_id).first(): the rows
\* other transactions committed (its own rows have other keys)
existing_product(uniq_id) == \E p \in products : p.uniq_id = uniq_id

\* the except clause and the finally clause: rollback, close; the call ends
Failed(t, error) ==
    [tasks[t] EXCEPT !.pc = "done", !.error = error, !.groups = <<>>,
                     !.new = <<>>, !.pvariants = <<>>, !.docs = EmptyBag]

\* the position after a group is done: the next group, or session.commit()
AfterGroup(groups) == IF Len(groups) > 1 THEN "query" ELSE "commit"

ChatUnchanged ==
    UNCHANGED <<embeddings_model, llm, SessionLocal, vector_store, db_engine,
                started, conversation_memory_store, answered, last, requests,
                environ>>

\* the call starts: the guard on the handles, pd.read_csv, SessionLocal(),
\* df.groupby
StartIngest(t, path) ==
    /\ started
    /\ ~Active(t)
    /\ calls_started < MaxIngestCalls
    /\ calls_started' = calls_started + 1
    /\ LET overlap == \E u \in Tasks \ {t} : Active(u)
           call == [IdleTask EXCEPT !.file = path, !.overlapped = overlap]
       IN  IF ~embeddings_model \/ ~SessionLocal
           THEN tasks' = [tasks EXCEPT
                            ![t] = [call EXCEPT !.pc = "done",
                                                !.error = "not initialized"]]
           ELSE IF read_csv(path).raises
           THEN tasks' = [tasks EXCEPT
                            ![t] = IF read_csv(path).exc = "FileNotFoundError"
                                   THEN [call EXCEPT !.pc = "done",
                                                     !.error = "FileNotFoundError"]
                                   ELSE [call EXCEPT !.pc = "done",
                                                     !.raised = read_csv(path).exc]]
           ELSE IF path \in FilesWithoutColumns
           THEN tasks' = [tasks EXCEPT
                            ![t] = [call EXCEPT !.pc = "done", !.error = "KeyError"]]
           ELSE LET keys == GroupKeys(Files[path])
                    known == {keys[i] : i \in 1..Len(keys)}
                                \cap {p.uniq_id : p \in products}
                IN  tasks' =
                       [u \in Tasks |->
                           IF u = t
                           THEN [call EXCEPT
                                   !.pc = IF keys = <<>> THEN "commit" ELSE "query",
                                   !.groups = keys,
                                   !.all_known = Cardinality(known) = Len(keys),
                                   !.none_known = known = {}]
                           ELSE IF Active(u)
                           THEN [tasks[u] EXCEPT !.overlapped = TRUE]
                           ELSE tasks[u]]
    /\ UNCHANGED <<products, variants, next_product_id, collection>>
    /\ ChatUnchanged

\* the query for the group's product: an existing product skips the group
QueryExisting(t) ==
    /\ tasks[t].pc = "query"
    /\ tasks' = [tasks EXCEPT
                   ![t] = IF existing_product(Head(tasks[t].groups))
                          THEN [@ EXCEPT !.pc = AfterGroup(tasks[t].groups),
                                         !.groups = Tail(@)]
                          ELSE [@ EXCEPT !.pc = "flush"]]
    /\ UNCHANGED <<products, variants, next_product_id, collection, calls_started>>
    /\ ChatUnchanged

\* session.add(product); session.flush(), then the variant loop
FlushProduct(t) ==
    /\ tasks[t].pc = "flush"
    /\ LET uniq_id == Head(tasks[t].groups)
           group == Group(Files[tasks[t].file], uniq_id)
       IN  /\ ~WaitsForInsertOf(t, uniq_id)
           /\ IF UniqueViolation(uniq_id)
              THEN /\ tasks' = [tasks EXCEPT ![t] = Failed(t, "IntegrityError")]
                   /\ UNCHANGED next_product_id
              ELSE /\ next_product_id' = next_product_id + 1
                   /\ tasks' =
                        [tasks EXCEPT
                           ![t] = IF PricesParse(group)
                                  THEN [@ EXCEPT
                                          !.pc = AfterGroup(tasks[t].groups),
                                          !.groups = Tail(@),
                                          !.new = Append(@, NewProduct(next_product_id,
                                                                       uniq_id, group)),
                                          !.pvariants = @ \o NewVariants(next_product_id,
                                                                         group)]
                                  ELSE Failed(t, "ValueError")]
    /\ UNCHANGED <<products, variants, collection, calls_started>>
    /\ ChatUnchanged

(* (mutation) a failed commit whose flushed product rows stay in the table *)
Commit_without_rollback(t, ok) ==
    /\ tasks[t].pc = "commit"
    /\ products' = products \cup {tasks[t].new[i] : i \in 1..Len(tasks[t].new)}
    /\ variants' = IF ok THEN variants \o tasks[t].pvariants ELSE variants
    /\ tasks' = [tasks EXCEPT
                   ![t] = IF ok
                          THEN [@ EXCEPT
                                  !.pc = IF tasks[t].new = <<>> THEN "done" ELSE "embed",
                                  !.created = Len(tasks[t].new),
                                  !.pvariants = <<>>]
                          ELSE [Failed(t, "OperationalError") EXCEPT
                                  !.store_failed = TRUE]]
    /\ UNCHANGED <<next_product_id, collection, calls_started>>
    /\ ChatUnchanged

\* session.commit(): the new rows become visible together, or the commit
\* raises and the except clause rolls back
Commit(t, ok) ==
    /\ tasks[t].pc = "commit"
    /\ IF ok
       THEN /\ products' = products
                              \cup {tasks[t].new[i] : i \in 1..Len(tasks[t].new)}
            /\ variants' = variants \o tasks[t].pvariants
            /\ tasks' = [tasks EXCEPT
                           ![t] = [@ EXCEPT
                                     !.pc = IF tasks[t].new = <<>> THEN "done" ELSE "embed",
                                     !.created = Len(tasks[t].new),
                                     !.pvariants = <<>>]]
       ELSE /\ tasks' = [tasks EXCEPT
                           ![t] = [Failed(t, "OperationalError") EXCEPT
                                     !.store_failed = TRUE]]
            /\ UNCHANGED <<products, variants>>
    /\ UNCHANGED <<next_product_id, collection, calls_started>>
    /\ ChatUnchanged

\* the new products are read back with their variants, their documents are
\* built, and PGVector.from_documents embeds the texts
Embed(t, ok) ==
    /\ tasks[t].pc = "embed"
    /\ tasks' =
          [tasks EXCEPT
             ![t] = IF ok
                    THEN [@ EXCEPT
                            !.pc = "delete_collection",
                            !.docs = create_documents_from_db(
                                        {tasks[t].new[i].id : i \in 1..Len(tasks[t].new)},
                                        products, variants)]
                    ELSE [Failed(t, "embedding failed") EXCEPT
                            !.created = tasks[t].created, !.store_failed = TRUE]]
    /\ UNCHANGED <<products, variants, next_product_id, collection, calls_started>>
    /\ ChatUnchanged

\* pre_delete_collection=True: the store drops the collection it finds
DeleteCollection(t) ==
    /\ tasks[t].pc = "delete_collection"
    /\ collection' = EmptyBag
    /\ tasks' = [tasks EXCEPT ![t] = [@ EXCEPT !.pc = "add_documents"]]
    /\ UNCHANGED <<products, variants, next_product_id, calls_started>>
    /\ ChatUnchanged

\* ... and adds the documents to the collection of that name; then the
\* finally clause closes the session
AddDocuments(t, ok) ==
    /\ tasks[t].pc = "add_documents"
    /\ IF ok
       THEN /\ collection' = collection (+) tasks[t].docs
            /\ tasks' = [tasks EXCEPT
                           ![t] = [@ EXCEPT !.pc = "done", !.groups = <<>>,
                                            !.docs = EmptyBag]]
       ELSE /\ tasks' = [tasks EXCEPT
                           ![t] = [Failed(t, "vector store failed") EXCEPT
                                     !.created = tasks[t].created,
                                     !.store_failed = TRUE]]
            /\ UNCHANGED collection
    /\ UNCHANGED <<products, variants, next_product_id, calls_started>>
    /\ ChatUnchanged

(***************************************************************************)
(* Specifications.                                                         *)
(***************************************************************************)
ClassifierOutcomes == Raises \cup {Returns(t) : t \in LlmTexts}
PlainJson(intent) ==
    Returns([prefix |-> "", suffix |-> "",
             body |-> [json |-> "object", has_intent |-> TRUE, intent |-> intent]])

\* every outcome of the answer path's capabilities
AnyRag ==
    [ref |-> ReformulationOutcomes, gen |-> GenerationOutcomes,
     ret |-> UNION {RetrievalOutcomes(k) : k \in KValues}]
\* capabilities that work
WorkingRag ==
    [ref |-> {Returns(t) : t \in Standalones}, gen |-> {Returns("answer-1")},
     ret |-> {Returns(SubSeq(DocPool, 1, 1))}]

\* the chat path: every outcome of retrieval, reformulation and generation,
\* a few outcomes of classification
Next ==
    \/ \E f \in InitFailures : Lifespan(f)
    \/ \E sid \in SessionIds, q \in Questions,
          cls \in {PlainJson("greeting"), PlainJson("product_query")} :
          ChatRequest(sid, q, 3, cls, AnyRag, MaxTurns)
    \/ \E sid \in SessionIds, q \in Questions, k \in KValues :
          AnswerCall(sid, q, k, AnyRag, MaxTurns)
Spec == Init /\ [][Next]_vars

\* intent routing: every outcome of classification, capabilities that work
NextIntent ==
    \/ \E f \in InitFailures : Lifespan(f)
    \/ \E sid \in SessionIds, q \in Questions, cls \in ClassifierOutcomes :
          ChatRequest(sid, q, 3, cls, WorkingRag, MaxTurns)
    \/ \E q \in Questions, cls \in ClassifierOutcomes : ClassifyCall(q, cls)
SpecIntent == Init /\ [][NextIntent]_vars

\* the memory window: long conversations with capabilities that work
NextWindow ==
    \/ Lifespan("none")
    \/ \E sid \in SessionIds, q \in Questions :
          AnswerCall(sid, q, 3, WorkingRag, MemoryWindowK + WindowSlack)
SpecWindow == Init /\ [][NextWindow]_vars

\* ingestion: overlapping calls of ingest_data_in_background on the files
NextIngest ==
    \/ \E f \in {"none", "setup_embeddings", "PGVector"} : Lifespan(f)
    \/ \E t \in Tasks, path \in FilePaths : StartIngest(t, path)
    \/ \E t \in Tasks : QueryExisting(t)
    \/ \E t \in Tasks : FlushProduct(t)
    \/ \E t \in Tasks, ok \in BOOLEAN : Commit(t, ok)
    \/ \E t \in Tasks, ok \in BOOLEAN : Embed(t, ok)
    \/ \E t \in Tasks : DeleteCollection(t)
    \/ \E t \in Tasks, ok \in BOOLEAN : AddDocuments(t, ok)
SpecIngest == Init /\ [][NextIngest]_vars

\* the readiness probe, after every way initialization can end, between
\* chat requests
NextStatus ==
    \/ \E f \in InitFailures : Lifespan(f)
    \/ GetStatus
    \/ \E sid \in SessionIds, q \in Questions,
          cls \in {PlainJson("greeting"), PlainJson("product_query")} :
          ChatRequest(sid, q, 3, cls, WorkingRag, MaxTurns)
SpecStatus == Init /\ [][NextStatus]_vars

\* startup with every environment, then the probe, chat requests and
\* classify_intent with capabilities that work
NextConfig ==
    \/ \E env \in Environments, f \in InitFailures : LifespanWith(env, f)
    \/ GetStatus
    \/ \E sid \in SessionIds, q \in Questions,
          cls \in {PlainJson("greeting"), PlainJson("product_query")} :
          ChatRequest(sid, q, 3, cls, WorkingRag, MaxTurns)
    \/ \E q \in Questions,
          cls \in {PlainJson("greeting"), PlainJson("product_query")} :
          ClassifyCall(q, cls)
SpecConfig == Init /\ [][NextConfig]_vars

\* requests in flight: two POST /chat that may overlap, every outcome of the
\* answer path's capabilities
NextConcurrent ==
    \/ \E f \in {"none", "PGVector"} : Lifespan(f)
    \/ \E r \in RequestIds, sid \in SessionIds : Arrive(r, sid)
    \/ \E r \in RequestIds : BeginRequest(r, 3, PlainJson("product_query"), AnyRag)
    \/ \E r \in RequestIds : EndRequest(r)
SpecConcurrent == Init /\ [][NextConcurrent]_vars

\* ingestion of every kind of source, one call after the other
NextSources ==
    \/ \E f \in {"none", "setup_embeddings"} : Lifespan(f)
    \/ \E path \in SourcePaths : StartIngest("t1", path)
    \/ QueryExisting("t1")
    \/ FlushProduct("t1")
    \/ \E ok \in BOOLEAN : Commit("t1", ok)
    \/ \E ok \in BOOLEAN : Embed("t1", ok)
    \/ DeleteCollection("t1")
    \/ \E ok \in BOOLEAN : AddDocuments("t1", ok)
SpecSources == Init /\ [][NextSources]_vars

(***************************************************************************)
(* Properties of the chat path.                                            *)
(***************************************************************************)
AnswerCalls == {"reformulate", "retrieve", "generate"}
NonDefaultIntents == IntentLabels \ {DefaultIntent}
StoredMessages(store, sid) == IF sid \in DOMAIN store THEN store[sid] ELSE <<>>

\* C1: a call of get_rag_answer that returns an answer (handles set, the
\* capability calls succeeded, with or without retrieved documents) changes
\* the memory store in one way only: the turn (question, returned answer) is
\* appended to the messages of its session, which is created if missing;
\* every other session keeps its messages.
C1_AnswerAppendsExactlyOneTurn ==
    [][(last'.op \in {"get_rag_answer", "chat_endpoint"}
          /\ last'.outcome = "answered")
       => LET sid == last'.session_id IN
          /\ vector_store /\ llm
          /\ DOMAIN conversation_memory_store'
                = DOMAIN conversation_memory_store \cup {sid}
          /\ conversation_memory_store'[sid]
                = StoredMessages(conversation_memory_store, sid)
                  \o <<HumanMessage(last'.question), AIMessage(last'.answer)>>
          /\ \A other \in DOMAIN conversation_memory_store \ {sid} :
                conversation_memory_store'[other] = conversation_memory_store[other]
      ]_vars

\* C1 witness: an answered call that retrieved no document, for a session
\* that had a turn already, while another session has a turn too
C1_Witness ==
    /\ last.op = "get_rag_answer"
    /\ last.outcome = "answered"
    /\ last.prompt.context = <<>>
    /\ \E other \in DOMAIN conversation_memory_store \ {last.session_id} :
          Len(conversation_memory_store[other]) = 2

\* C2: the history loaded for the next request of a session is the
\* min(n, N) most recent of its n answered turns, oldest first, each as its
\* human message followed by its AI message (N = MemoryWindowK).
C2_HistoryIsTheLastTurns ==
    \A sid \in SessionIds :
       LET turns == answered[sid]
           n == Len(turns)
           m == Min(n, MemoryWindowK)
           h == SessionHistory(sid)
       IN  /\ Len(h) = 2 * m
           /\ \A i \in 1..m :
                 /\ h[2 * i - 1] = HumanMessage(turns[n - m + i].question)
                 /\ h[2 * i] = AIMessage(turns[n - m + i].answer)

\* C2 witness: N+1 turns answered in one session, the evicted one different
\* from the one that is now the oldest
C2_Witness ==
    \E sid \in SessionIds :
       /\ Len(answered[sid]) = MemoryWindowK + 1
       /\ answered[sid][1] # answered[sid][2]
       /\ Len(SessionHistory(sid)) = 2 * MemoryWindowK
       /\ SessionHistory(sid)[1] = HumanMessage(answered[sid][2].question)

\* C3: get_rag_answer called while the vector store handle or the LLM handle
\* is not set returns the fixed degraded answer and the debug text naming
\* the cause, makes no capability call and leaves the memory store as it is.
C3_NotInitializedIsDegraded ==
    [][(last'.op = "get_rag_answer" /\ (~vector_store \/ ~llm))
       => /\ last'.outcome = "degraded"
          /\ last'.answer = DegradedAnswer
          /\ last'.prompt = NotInitializedPrompt
          /\ last'.calls = {}
          /\ conversation_memory_store' = conversation_memory_store
          /\ last'.session_id \notin DOMAIN conversation_memory_store'
      ]_vars

\* C3 witness: the degraded answer given while the LLM is set and the vector
\* store is not
C3_Witness ==
    /\ last.op = "get_rag_answer"
    /\ last.outcome = "degraded"
    /\ llm /\ ~vector_store

\* C4 (as claimed): the answer operation always returns a text answer,
\* whatever the retrieval, reformulation and generation calls do.
C4_AnswerPathNeverThrows ==
    last.op \in {"get_rag_answer", "chat_endpoint"} /\ last.calls \cap AnswerCalls # {}
       => last.outcome = "answered" /\ last.answer # ""

\* C5: a chat request whose question is classified as greeting, thanks,
\* goodbye or identity gets the response configured for that intent, makes
\* no reformulation, retrieval or generation call, and leaves the memory
\* store as it is.
C5_SmallTalkIsFixedAndPure ==
    [][(last'.op = "chat_endpoint" /\ last'.intent \in NonDefaultIntents)
       => /\ last'.outcome = "chitchat"
          /\ last'.calls \cap AnswerCalls = {}
          /\ conversation_memory_store' = conversation_memory_store
          /\ last'.answer = CHITCHAT_RESPONSES[last'.intent].response
      ]_vars

\* C5 witness: an identity question of a session without memory, answered
\* from the table while another session has a turn
C5_Witness ==
    /\ last.op = "chat_endpoint"
    /\ last.intent = "identity"
    /\ last.outcome = "chitchat"
    /\ last.session_id \notin DOMAIN conversation_memory_store
    /\ conversation_memory_store # <<>>

\* C6 (as claimed): classify_intent never raises, and returns product_query
\* whenever the capability is uninitialized, raises, or returns text that
\* does not parse into an object with a label.
C6_ClassifyNeverRaises ==
    last.op = "classify_intent"
       => /\ last.outcome = "returned"
          /\ last.capability \in {"uninitialized", "raised", "unparseable", "no label"}
                => last.intent = DefaultIntent

\* C7 (as claimed): classify_intent returns one of the fixed labels, and
\* product_query for a label that is absent or not one of them.
C7_ClassifyReturnsAFixedLabel ==
    (last.op = "classify_intent" /\ last.outcome = "returned")
       => last.intent \in IntentLabels

(***************************************************************************)
(* Ingestion claims, under SpecIngest.                                     *)
(***************************************************************************)
\* the calls of ingest_data_in_background that have returned
Returned(t) == tasks[t].pc = "done"
\* the ids a file names
IdsOf(path) == {Files[path][i].product_id : i \in 1..Len(Files[path])}
\* the variant rows a product owns
VariantsOf(p) == SelectSeq(variants, LAMBDA v : v.product_id = p.id)

\* C8: whatever ingestion calls ran, overlapping ones included, no two
\* stored products share a uniq_id, and the collection holds no document
\* twice and no two documents of one product.
C8_NoDuplicateProductOrDocument ==
    /\ \A p, q \in products : p.uniq_id = q.uniq_id => p = q
    /\ \A d \in BagToSet(collection) :
          /\ CopiesIn(d, collection) = 1
          /\ \A e \in BagToSet(collection) : e.product_id = d.product_id => e = d

\* two overlapping calls whose files both name p2 have returned: one
\* stored p2 and its document, the other lost the race on the unique index
C8_Witness ==
    \E t, u \in Tasks :
       /\ t # u /\ Returned(t) /\ Returned(u)
       /\ tasks[t].overlapped /\ tasks[u].overlapped
       /\ tasks[t].file \in DOMAIN Files /\ tasks[u].file \in DOMAIN Files
       /\ "p2" \in IdsOf(tasks[t].file) \cap IdsOf(tasks[u].file)
       /\ tasks[t].error = "" /\ tasks[u].error = "IntegrityError"
       /\ \E p \in products : p.uniq_id = "p2"
       /\ \E d \in BagToSet(collection) : d.name = "Leash"

\* C9: a call on a file whose ids are all stored already attempts no
\* insert and creates nothing, and no step of such a call changes the
\* products, the variants or the collection.
C9_ReingestionIsIdempotent ==
    [][ /\ \A t \in Tasks :
            tasks'[t].all_known =>
               /\ tasks'[t].pc \in {"query", "commit", "done"}
               /\ tasks'[t].new = <<>> /\ tasks'[t].pvariants = <<>>
               /\ tasks'[t].created = 0
               /\ tasks'[t].error \in {"", "OperationalError"}
        /\ <<products, variants, collection>>' # <<products, variants, collection>>
             => \A t \in Tasks : tasks'[t] # tasks[t] => ~tasks[t].all_known
      ]_vars

\* catalog.csv has been ingested, and a second call on it has returned
C9_Witness ==
    \E t \in Tasks :
       /\ Returned(t) /\ tasks[t].all_known /\ tasks[t].file = "catalog.csv"
       /\ tasks[t].error = "" /\ tasks[t].created = 0
       /\ {p.uniq_id : p \in products} = {"p1", "p2"}
       /\ Len(variants) = 3
       /\ collection # EmptyBag

\* C10: a call that ran alone, with no store failure, on a file of k rows
\* over m ids that were all unknown has stored m products, each from the
\* first row of its group, and for each as many variants as its group has
\* rows.
C10_StoresEveryGroup ==
    \A t \in Tasks :
       (/\ Returned(t) /\ tasks[t].file \in DOMAIN Files
        /\ tasks[t].none_known /\ ~tasks[t].overlapped /\ ~tasks[t].store_failed)
       => LET rows == Files[tasks[t].file]
          IN  /\ tasks[t].created = Cardinality(IdsOf(tasks[t].file))
              /\ \A id \in IdsOf(tasks[t].file) :
                    \E p \in products :
                       /\ p.uniq_id = id
                       /\ p.name = Group(rows, id)[1].product_name
                       /\ Len(VariantsOf(p)) = Len(Group(rows, id))

\* the errors of the transaction: of an insert, of the variant loop, of the
\* commit
TransactionErrors == {"IntegrityError", "ValueError", "OperationalError"}
Stores == <<products, variants, collection>>

\* C11: a call whose product or variant creation or whose commit fails
\* returns having created nothing; only calls whose commit succeeded ever
\* change the products, the variants or the collection, so the failed call
\* leaves all three as they were; and at every moment each stored variant
\* has its product and each stored product has its variants.
C11_FailedBatchIsRolledBack ==
    [][ /\ \A t \in Tasks :
            /\ tasks'[t].error \in TransactionErrors
                  => /\ tasks'[t].pc = "done" /\ tasks'[t].created = 0
                     /\ tasks[t].error \notin TransactionErrors
                           => /\ Stores' = Stores
                              /\ tasks[t].pc \in {"flush", "commit"}
                              /\ tasks[t].created = 0
            /\ (tasks[t].created > 0 /\ tasks'[t].file = tasks[t].file
                   /\ calls_started' = calls_started)
                  => tasks'[t].created = tasks[t].created
        /\ Stores' # Stores
             => \A t \in Tasks :
                   tasks'[t] # tasks[t]
                      => tasks'[t].created > 0 /\ tasks'[t].error \notin TransactionErrors
        /\ \A i \in 1..Len(variants') :
              \E p \in products' : p.id = variants'[i].product_id
        /\ \A p \in products' :
              \E i \in 1..Len(variants') : variants'[i].product_id = p.id
      ]_vars

\* a call on catalog.csv stored its products; then a call on update.csv
\* skipped p2, inserted p3, and its commit failed: the stores are those the
\* first call left
C11_Witness ==
    \E t, u \in Tasks :
       /\ Returned(t) /\ tasks[t].file = "catalog.csv" /\ tasks[t].created = 2
       /\ Returned(u) /\ tasks[u].file = "update.csv"
       /\ tasks[u].error = "OperationalError" /\ ~tasks[u].overlapped
       /\ {p.uniq_id : p \in products} = {"p1", "p2"}
       /\ Len(variants) = 3

\* C12 (as claimed): ingest_data_in_background returns normally for every
\* source, and a call on a missing file ingests nothing.
C12_IngestionNeverThrows ==
    \A t \in Tasks :
       Returned(t) =>
          /\ tasks[t].raised = ""
          /\ tasks[t].file = "missing.csv" => tasks[t].created = 0

\* C13 (as claimed): a row without a name gives no product, no variant and
\* no document, and the other rows of its file are ingested.
C13_RowsWithoutNameAreDropped ==
    \A t \in Tasks :
       (Returned(t) /\ tasks[t].file = "gaps.csv" /\ tasks[t].none_known
          /\ ~tasks[t].store_failed)
       => /\ \A p \in products : p.name # "nan"
          /\ \A d \in BagToSet(collection) : d.name # "nan"
          /\ \E p \in products : p.uniq_id = "p2" /\ p.name = "Leash"

(***************************************************************************)
(* Requests in flight, under SpecConcurrent.                               *)
(***************************************************************************)
\* request r got an answer, and the turn it saved
Answered(r) == requests[r].pc = "done" /\ requests[r].result.outcome = "answered"
Turn(r) ==
    <<HumanMessage(RequestQuestion[r]), AIMessage(requests[r].result.answer)>>

\* C14: once two requests of one session that were in flight together have
\* both been answered, the messages of the session are the turn of one
\* followed by the turn of the other, each the question with the answer
\* returned for it.
C14_OverlappingRequestsKeepBothTurns ==
    \A a, b \in RequestIds :
       (/\ a # b /\ Answered(a) /\ Answered(b)
        /\ requests[a].session_id = requests[b].session_id
        /\ requests[a].overlapped /\ requests[b].overlapped)
       => LET sid == requests[a].session_id IN
          /\ sid \in DOMAIN conversation_memory_store
          /\ conversation_memory_store[sid] \in {Turn(a) \o Turn(b), Turn(b) \o Turn(a)}

\* two requests of a@b.com were in flight together and got different answers
C14_Witness ==
    /\ Answered("r1") /\ Answered("r2")
    /\ requests["r1"].session_id = "a@b.com" /\ requests["r2"].session_id = "a@b.com"
    /\ requests["r1"].overlapped /\ requests["r2"].overlapped
    /\ requests["r1"].result.answer # requests["r2"].result.answer
    /\ Len(conversation_memory_store["a@b.com"]) = 4

\* C15: of two answered requests of one session, the one whose generation
\* call returned first has its turn first in the messages of the session.
C15_TurnsInGenerationOrder ==
    \A a, b \in RequestIds :
       (/\ Answered(a) /\ Answered(b)
        /\ requests[a].session_id = requests[b].session_id
        /\ requests[a].generated < requests[b].generated)
       => LET m == StoredMessages(conversation_memory_store, requests[a].session_id)
          IN  \E i, j \in 1..Len(m) :
                 /\ i + 1 < j
                 /\ SubSeq(m, i, i + 1) = Turn(a)
                 /\ SubSeq(m, j, j + 1) = Turn(b)

\* r2 arrived while r1 waited, ran first, and both were answered
C15_Witness ==
    /\ Answered("r1") /\ Answered("r2")
    /\ requests["r1"].session_id = requests["r2"].session_id
    /\ requests["r1"].overlapped
    /\ requests["r2"].generated = 1 /\ requests["r1"].generated = 2
    /\ conversation_memory_store[requests["r1"].session_id] = Turn("r2") \o Turn("r1")

(***************************************************************************)
(* Failed requests and the history the chain is given, under Spec.         *)
(***************************************************************************)
\* the step is a request whose reformulation, retrieval or generation call
\* raised (a cancelled synchronous call ends by raising, too)
AnswerCallFailed ==
    /\ last'.op \in {"get_rag_answer", "chat_endpoint"}
    /\ last'.outcome = "raised"
    /\ last'.calls \cap AnswerCalls # {}

\* C16 (as claimed): a request whose reformulation, retrieval or generation
\* call fails leaves the memory store equal to the store before it.
C16_FailedRequestLeavesStoreEqual ==
    [][AnswerCallFailed => conversation_memory_store' = conversation_memory_store]_vars

\* C16 (amended): such a request appends nothing: every session has the
\* messages it had, and the only change to the store is that the request's
\* session, if it had no memory, now has an empty one.
C16_FailedRequestAppendsNothing ==
    [][AnswerCallFailed
       => /\ \A sid \in SessionIds :
                StoredMessages(conversation_memory_store', sid)
                   = StoredMessages(conversation_memory_store, sid)
          /\ DOMAIN conversation_memory_store'
                = DOMAIN conversation_memory_store \cup {last'.session_id}
      ]_vars

\* the generation call of a request raised, in a session that has a turn
C16_Witness ==
    /\ last.op \in {"get_rag_answer", "chat_endpoint"}
    /\ last.outcome = "raised"
    /\ "generate" \in last.calls
    /\ Len(StoredMessages(conversation_memory_store, last.session_id)) = 2

(***************************************************************************)
(* The readiness probe, under SpecStatus.                                  *)
(***************************************************************************)
\* C17: in every state the probe reports ready exactly when the vector store
\* handle and the LLM handle are both set, and so does every report it gave.
C17_ReadyIffBothHandles ==
    /\ get_status(Globals).status = "ready" <=> (vector_store /\ llm)
    /\ last.op = "get_status" => (last.outcome = "ready" <=> (vector_store /\ llm))

\* the probe answered after an initialization that set the LLM handle and
\* failed before the vector store handle
C17_Witness ==
    /\ last.op = "get_status"
    /\ last.outcome = "initializing"
    /\ llm /\ ~vector_store

(***************************************************************************)
(* Documents and prices, under SpecIngest.                                 *)
(***************************************************************************)
\* every call made so far is on record (no task ran a second call), has
\* returned without an error, and met no store failure and no other call
QuietAndUndisturbed ==
    /\ calls_started = Cardinality({t \in Tasks : tasks[t].pc # "idle"})
    /\ \A t \in Tasks :
          tasks[t].pc # "idle"
             => /\ Returned(t) /\ tasks[t].error = "" /\ tasks[t].raised = ""
                /\ ~tasks[t].store_failed /\ ~tasks[t].overlapped

\* C18 (as claimed): when the calls have returned, every stored product has
\* a document in the collection.
C18_EveryProductHasADocument ==
    QuietAndUndisturbed
       => \A p \in products : \E d \in BagToSet(collection) : d.product_id = p.id

\* the rows of a file whose price is missing ("nan") or does not parse
BadPriceRows(path) ==
    {i \in 1..Len(Files[path]) :
        \/ Files[path][i].retail_price = "nan"
        \/ ParseFloat(Files[path][i].retail_price).raises}

\* C19 (as claimed): a call that ran alone, with no store failure, on a file
\* of unknown ids with a missing or unparseable price has committed every
\* group, the variant of such a row with price 0.0 and stock 100.
C19_BadPriceDefaultsToZero ==
    \A t \in Tasks :
       (/\ Returned(t) /\ tasks[t].file \in DOMAIN Files
        /\ tasks[t].none_known /\ ~tasks[t].overlapped /\ ~tasks[t].store_failed
        /\ BadPriceRows(tasks[t].file) # {})
       => LET rows == Files[tasks[t].file] IN
          /\ tasks[t].error = ""
          /\ \A id \in IdsOf(tasks[t].file) :
                \E p \in products :
                   /\ p.uniq_id = id
                   /\ Len(VariantsOf(p)) = Len(Group(rows, id))
                   /\ \A n \in 1..Len(Group(rows, id)) :
                         /\ VariantsOf(p)[n].stock = 100
                         /\ (\E i \in BadPriceRows(tasks[t].file) :
                                rows[i] = Group(rows, id)[n])
                               => VariantsOf(p)[n].retail_price = Float(0)

\* C20: the history given to the chain is the history of the session as it
\* was loaded before the turn is saved; with an empty history no
\* reformulation call is made and the retriever gets the question itself,
\* with a non-empty one the reformulation call is made and the retriever
\* gets what it returned.
C20_QueryFollowsTheHistoryBefore ==
    [][(last'.op \in {"get_rag_answer", "chat_endpoint"}
          /\ last'.calls \cap AnswerCalls # {})
       => LET before == SessionHistory(last'.session_id) IN
          /\ last'.outcome = "answered" => last'.prompt.history = before
          /\ before = <<>>
                => /\ "reformulate" \notin last'.calls
                   /\ "retrieve" \in last'.calls
                   /\ last'.query = last'.question
          /\ before # <<>>
                => /\ "reformulate" \in last'.calls
                   /\ "retrieve" \in last'.calls
                         => last'.query \in Standalones \ {last'.question}
      ]_vars

\* the second question of a session was answered: the chain got the first
\* turn as history and the retriever the reformulated question
C20_Witness ==
    /\ last.op = "chat_endpoint"
    /\ last.outcome = "answered"
    /\ "reformulate" \in last.calls
    /\ last.query = "cat shampoo?"
    /\ Len(last.prompt.history) = 2
    /\ Len(conversation_memory_store[last.session_id]) = 4

(***************************************************************************)
(* Configuration errors, under SpecConfig.                                 *)
(***************************************************************************)
\* C21 (as claimed): once a process started without a database parameter or
\* without GCP_PROJECT_ID is serving, initialization has failed: the vector
\* store handle is not set, the probe reports not ready, a product question
\* gets the not-ready response, and neither classify_intent nor a chat
\* request raises.
C21_ConfigurationErrorMeansNotReady ==
    (started /\ environ # CompleteEnviron)
       => /\ ~vector_store
          /\ last.op = "lifespan" => last.error # "none"
          /\ get_status(Globals).status = "initializing"
          /\ last.op = "get_status" => last.outcome = "initializing"
          /\ last.op = "chat_endpoint"
                => /\ last.outcome \in {"chitchat", "http_503"}
                   /\ last.intent = DefaultIntent => last.outcome = "http_503"
          /\ last.op = "classify_intent" => last.outcome = "returned"

(***************************************************************************)
(* The documents, under SpecIngest.                                        *)
(***************************************************************************)
\* C22 (as claimed): the price of every document in the collection is the
\* retail price of its product's first variant, 0.0 included, and the
\* marker N/A only for a product without variants; its image is the
\* product's first image URL, or # for a product without one.
C22_DocumentShowsFirstVariantPrice ==
    \A d \in BagToSet(collection) :
       \E p \in products :
          /\ p.id = d.product_id
          /\ d.price = IF VariantsOf(p) # <<>>
                       THEN FloatStr(VariantsOf(p)[1].retail_price)
                       ELSE "N/A"
          /\ d.image_url = IF p.image_urls # <<>> THEN p.image_urls[1] ELSE "#"

====
